---- MODULE Spec2Model ----
(***************************************************************************)
(* PR reviewer assignment service (prsrv).                                 *)
(*                                                                         *)
(* The model follows internal/domain/service.go statement by statement     *)
(* against the PostgreSQL tables of migrations/001_init.up.sql.  Every SQL *)
(* statement of internal/repo/postgres.go is one step.  Statements issued  *)
(* on the transaction handle (tx.Exec, tx.QueryRow) are buffered in tx[c]  *)
(* and become visible at tx.Commit; statements issued on the pool handle   *)
(* (r.db.Query, r.db.Exec) run on another connection: reads see committed  *)
(* rows only (read committed), writes commit at once.  A write waits while *)
(* another open transaction holds the row.                                 *)
(***************************************************************************)
EXTENDS Integers, Sequences, FiniteSets, Bags, TLC

\* ---------------------------------------------------------------- universe
UserIds == {"u1", "u2", "u3", "u4", "u5"}
UserOrder == <<"u1", "u2", "u3", "u4", "u5">>
TeamNames == {"backend", "payments"}
PRIds == {"pr-1", "pr-2"}
PRNames == {"Add search"}
\* the author_id of the /pullRequest/create requests; "u9" is no user_id of
\* any /team/add request
AuthorIds == {"u1", "u2", "u5", "u9"}
\* the user_id of the /users/setIsActive requests
ToggleIds == {"u2", "u3"}
Slots == {1, 2}

\* total number of use-case invocations in one behaviour
MaxCalls == 3

\* ---------------------------------------------------------------- models.go
StatusOPEN == "OPEN"
StatusMERGED == "MERGED"

ErrTeamExists == "TEAM_EXISTS"
ErrPRExists == "PR_EXISTS"
ErrPRMerged == "PR_MERGED"
ErrNotAssigned == "NOT_ASSIGNED"
ErrNoCandidate == "NO_CANDIDATE"
ErrNotFound == "NOT_FOUND"

ErrorCodes ==
  <<ErrTeamExists, ErrPRExists, ErrPRMerged, ErrNotAssigned, ErrNoCandidate, ErrNotFound>>

\* an error value is the text "<prefix>:<msg>"; nil is the empty text
NoErr == [prefix |-> "", msg |-> ""]
wrapCode(code, msg) == [prefix |-> code, msg |-> msg]
\* a failure of the driver (lib/pq): its text starts with "pq"
pqError(msg) == [prefix |-> "pq", msg |-> msg]

ParseErrorCode(err) ==
  IF err = NoErr THEN ""
  ELSE IF \E i \in 1..Len(ErrorCodes) : ErrorCodes[i] = err.prefix
       THEN err.prefix
       ELSE ""

\* ---------------------------------------------------------------- requests
\* bodies of /team/add drawn on by AddTeam
BackendRequest ==
    [team_name |-> "backend",
     members |-> << [user_id |-> "u1", username |-> "Alice", is_active |-> TRUE],
                    [user_id |-> "u2", username |-> "Bob",   is_active |-> TRUE],
                    [user_id |-> "u3", username |-> "Carol", is_active |-> TRUE],
                    [user_id |-> "u4", username |-> "Dave",  is_active |-> TRUE],
                    [user_id |-> "u5", username |-> "Eve",   is_active |-> TRUE] >>]
PaymentsRequest ==
    [team_name |-> "payments",
     members |-> << [user_id |-> "u5", username |-> "Eve",   is_active |-> TRUE],
                    [user_id |-> "u1", username |-> "Al",    is_active |-> FALSE] >>]
TeamRequests == {BackendRequest, PaymentsRequest}

\* bodies of /users/bulkDeactivate drawn on by BulkDeactivateAndReassign
BulkRequests ==
  { [team_name |-> "backend",  user_ids |-> {"u4", "u5"}],
    [team_name |-> "backend",  user_ids |-> {"u3", "u5"}],
    [team_name |-> "payments", user_ids |-> {"u2", "u5"}] }

\* ---------------------------------------------------------------- state
VARIABLES
  teams,          \* table teams: set of team_name
  users,          \* table users: user_id -> [username, team_name, is_active]
  pull_requests,  \* table pull_requests: pr_id -> row (created_at is written once
                  \* and read by no rule: it is left out)
  pr_reviewers,   \* table pr_reviewers: bag of <<pr_id, user_id>>
  call,           \* per slot: the invocation in flight, its position and locals
  tx,             \* per slot: the uncommitted writes of its *sql.Tx
  ncalls,         \* invocations so far; also the database clock read by now()
  created_size,   \* history: pr_id -> size of the reviewer set committed by CreatePR
  merge_returned  \* history: pr_id -> what the first successful MergePR returned

vars == <<teams, users, pull_requests, pr_reviewers, call, tx, ncalls, created_size, merge_returned>>
db == <<teams, users, pull_requests, pr_reviewers>>

EmptyFn == [x \in {} |-> x]
Min(a, b) == IF a < b THEN a ELSE b
SetToSeq(S) == SelectSeq(UserOrder, LAMBDA u : u \in S)
SeqToSet(s) == {s[i] : i \in 1..Len(s)}
Without(f, k) == [x \in DOMAIN f \ {k} |-> f[x]]

NoPR ==
  [pr_id |-> "", pr_name |-> "", author_id |-> "", status |-> "",
   merged_at |-> 0, assigned_reviewers |-> <<>>]

NoUser == [user_id |-> "", username |-> "", team_name |-> "", is_active |-> FALSE]

\* The value of a request's Authorization header, written as its leading text
\* and what follows it; NoHeader is the empty value Header.Get gives when the
\* request carries no such header.
NoHeader == [lead |-> "", rest |-> ""]
NoAuth == [AdminToken |-> "", UserToken |-> ""]

NoTx ==
  [open |-> FALSE, teams |-> {}, users |-> EmptyFn, prs |-> EmptyFn,
   merged |-> {}, del |-> {}, ins |-> {}]

Idle ==
  [op |-> "idle", pc |-> "idle", prID |-> "", prName |-> "", userID |-> "", team |-> "",
   active |-> FALSE, members |-> <<>>, userIDs |-> {}, now |-> 0,
   pr |-> NoPR, assigned |-> <<>>, cands |-> <<>>, items |-> <<>>,
   deactivated |-> {}, outcomes |-> <<>>, out |-> NoPR, replacedBy |-> "",
   outUser |-> NoUser, outMembers |-> <<>>, err |-> NoErr, solo |-> FALSE,
   wasActive |-> {}, exclude |-> {}, limit |-> 0, pool |-> {},
   groupBy |-> "", byUser |-> EmptyFn, byPR |-> EmptyFn,
   route |-> "", header |-> NoHeader, auth |-> NoAuth, ran |-> FALSE, status |-> 0,
   prs |-> <<>>]

\* The tables when the first modelled request arrives: empty (after the
\* migration), or holding what the /team/add requests of TeamRequests leave
\* behind when they ran one after the other before.
UserRow(m, team) == [username |-> m.username, team_name |-> team, is_active |-> m.is_active]
RECURSIVE Upserted(_, _, _)
Upserted(tbl, team, members) ==
  IF members = <<>> THEN tbl
  ELSE Upserted([u \in DOMAIN tbl \cup {Head(members).user_id} |->
                   IF u = Head(members).user_id THEN UserRow(Head(members), team)
                   ELSE tbl[u]],
                team, Tail(members))
Seeds ==
  { [teams |-> {}, users |-> EmptyFn],
    [teams |-> {BackendRequest.team_name},
     users |-> Upserted(EmptyFn, BackendRequest.team_name, BackendRequest.members)],
    [teams |-> {BackendRequest.team_name, PaymentsRequest.team_name},
     users |-> Upserted(Upserted(EmptyFn, BackendRequest.team_name, BackendRequest.members),
                        PaymentsRequest.team_name, PaymentsRequest.members)] }

Init ==
  /\ \E seed \in Seeds : teams = seed.teams /\ users = seed.users
  /\ pull_requests = EmptyFn
  /\ pr_reviewers = EmptyBag
  /\ call = [c \in Slots |-> Idle]
  /\ tx = [c \in Slots |-> NoTx]
  /\ ncalls = 0
  /\ created_size = EmptyFn
  /\ merge_returned = EmptyFn

\* ---------------------------------------------------------------- reads on r.db

\* select user_id from pr_reviewers where pr_id=$1 order by user_id
GetAssignedReviewers(prID) ==
  SelectSeq(UserOrder, LAMBDA u : BagIn(<<prID, u>>, pr_reviewers))

Reviewers(prID) == {u \in UserIds : BagIn(<<prID, u>>, pr_reviewers)}

\* select ... from pull_requests where pr_id=$1, then GetAssignedReviewers
GetPR(prID) ==
  IF prID \in DOMAIN pull_requests
  THEN [pr_id |-> prID,
        pr_name |-> pull_requests[prID].pr_name,
        author_id |-> pull_requests[prID].author_id,
        status |-> pull_requests[prID].status,
        merged_at |-> pull_requests[prID].merged_at,
        assigned_reviewers |-> GetAssignedReviewers(prID)]
  ELSE NoPR

\* an order that also looks at the activity of the users of another team
Md5Order_Unstable(prID) ==
  IF \E u \in DOMAIN users : users[u].team_name = "payments" /\ ~users[u].is_active
  THEN <<"u2", "u1", "u3", "u4", "u5">>
  ELSE <<"u5", "u4", "u3", "u1", "u2">>

\* order by md5($3 || u.user_id): the order of the md5 hex digests of
\* "pr-1u1", "pr-1u2", ... computed for the ids of this model
Md5Order(prID) ==
  IF prID = "pr-1" THEN <<"u5", "u4", "u3", "u1", "u2">>
  ELSE <<"u3", "u2", "u1", "u5", "u4">>

\* the pool without the test of is_active
PickPool_AnyActivity(team, exclude) ==
  {u \in DOMAIN users : users[u].team_name = team /\ u \notin exclude}

\* where team_name=$1 and is_active and user_id <> all($2)
PickPool(team, exclude) ==
  {u \in DOMAIN users :
     users[u].team_name = team /\ users[u].is_active /\ u \notin exclude}

\* the selection without its limit clause
PickReviewersFromTeam_NoLimit(prID, team, exclude, limit) ==
  SelectSeq(Md5Order(prID), LAMBDA u : u \in PickPool(team, exclude))

\* the query of PickReviewersFromTeam: the pool in the order of Md5Order,
\* cut after limit rows
PickReviewersFromTeam(prID, team, exclude, limit) ==
  LET ranked == SelectSeq(Md5Order(prID), LAMBDA u : u \in PickPool(team, exclude))
  IN SubSeq(ranked, 1, Min(limit, Len(ranked)))

\* ---------------------------------------------------------------- row locks
OtherOpen(c) == {d \in Slots \ {c} : tx[d].open}

\* open transactions that hold the pr_reviewers row k
RevHolders(c, k) == {d \in OtherOpen(c) : k \in tx[d].del \cup tx[d].ins}
\* open transactions that hold the users row u
UserHolders(c, u) == {d \in OtherOpen(c) : u \in DOMAIN tx[d].users}
\* open transactions with a pending row of key id in pull_requests
PRHolders(c, id) == {d \in OtherOpen(c) : id \in DOMAIN tx[d].prs \/ id \in tx[d].merged}
TeamHolders(c, t) == {d \in OtherOpen(c) : t \in tx[d].teams}

\* ---------------------------------------------------------------- call frame
FirstIdle ==
  CHOOSE c \in Slots :
    call[c].pc = "idle" /\ \A d \in Slots : (call[d].pc = "idle" => c <= d)

\* a request may arrive: a slot is free and every finished call has returned
CanEnter(c) ==
  /\ ncalls < MaxCalls
  /\ \E d \in Slots : call[d].pc = "idle"
  /\ c = FirstIdle
  /\ \A d \in Slots : call[d].pc # "done"

\* the handler is entered with this frame; WithTx begins a transaction when
\* txOpen.  solo records that no other call was in flight during the call.
Start(c, frame, txOpen) ==
  /\ ncalls' = ncalls + 1
  /\ call' = [d \in Slots |->
                IF d = c
                THEN [frame EXCEPT !.solo = \A e \in Slots \ {c} : call[e].pc = "idle"]
                ELSE IF call[d].pc # "idle" THEN [call[d] EXCEPT !.solo = FALSE]
                ELSE call[d]]
  /\ tx' = [tx EXCEPT ![c] = [NoTx EXCEPT !.open = txOpen]]

At(c, op, pc) == call[c].op = op /\ call[c].pc = pc

\* the closure returns err: WithTx rolls back and the handler returns the error
Fail(c, err) ==
  /\ call' = [call EXCEPT ![c].pc = "done", ![c].err = err]
  /\ tx' = [tx EXCEPT ![c] = NoTx]

Goto(c, pc) == call' = [call EXCEPT ![c].pc = pc]

\* a commit that loses the insert into teams
CommitTeams_Lost(c) == teams

\* tx.Commit(): the buffered writes of slot c reach the tables
CommitTeams(c) == teams \cup tx[c].teams
CommitUsers(c) ==
  [u \in DOMAIN users \cup DOMAIN tx[c].users |->
     IF u \in DOMAIN tx[c].users THEN tx[c].users[u] ELSE users[u]]
CommitPRs(c) ==
  [p \in DOMAIN pull_requests \cup DOMAIN tx[c].prs |->
     IF p \in DOMAIN tx[c].prs THEN tx[c].prs[p]
     ELSE IF p \in tx[c].merged
          THEN [pull_requests[p] EXCEPT !.status = StatusMERGED, !.merged_at = call[c].now]
          ELSE pull_requests[p]]
CommitReviewers(c) ==
  LET kept == [k \in {k \in DOMAIN pr_reviewers : k \notin tx[c].del} |-> pr_reviewers[k]]
  IN kept (+) SetToBag(tx[c].ins)

WithTxCommit(c) ==
  /\ teams' = CommitTeams(c)
  /\ users' = CommitUsers(c)
  /\ pull_requests' = CommitPRs(c)
  /\ pr_reviewers' = CommitReviewers(c)
  /\ tx' = [tx EXCEPT ![c] = NoTx]

\* the response was written: the slot is free again
Return(c) ==
  /\ call[c].pc = "done"
  /\ call' = [call EXCEPT ![c] = Idle]
  /\ UNCHANGED <<db, tx, ncalls, created_size, merge_returned>>

\* ---------------------------------------------------------------- writes on tx

\* the insert without its conflict clause and without the primary key
InsertReviewer_NoConflict(t, k) == [t EXCEPT !.ins = @ \cup {k}]

\* insert into pr_reviewers(pr_id, user_id) values ($1,$2) on conflict do nothing
InsertReviewer(t, k) ==
  IF k \in t.ins \/ (BagIn(k, pr_reviewers) /\ k \notin t.del)
  THEN t
  ELSE [t EXCEPT !.ins = @ \cup {k}]

\* delete from pr_reviewers where pr_id=$1 and user_id=$2
DeleteReviewerRow(t, k) ==
  [t EXCEPT !.ins = @ \ {k},
            !.del = IF BagIn(k, pr_reviewers) THEN @ \cup {k} ELSE @]

\* the insert waits for a transaction that holds the row, unless the row is
\* this transaction's own
InsertWaits(c, k) ==
  IF k \in tx[c].ins \/ k \in tx[c].del THEN {} ELSE RevHolders(c, k)

\* the delete waits for a transaction that deletes the committed row
DeleteWaits(c, k) ==
  IF BagIn(k, pr_reviewers) /\ k \notin tx[c].del
  THEN {d \in OtherOpen(c) : k \in tx[d].del}
  ELSE {}

RECURSIVE AssignReviewers(_, _, _)
AssignReviewers(t, prID, userIDs) ==
  IF userIDs = <<>> THEN t
  ELSE AssignReviewers(InsertReviewer(t, <<prID, Head(userIDs)>>), prID, Tail(userIDs))

\* the match without its test of the team
BulkMatch_AnyTeam(team, ids) == {u \in ids : u \in DOMAIN users}

\* rows of users an update ... where team_name=$1 and user_id = any($2) matches
BulkMatch(team, ids) ==
  {u \in ids : u \in DOMAIN users /\ users[u].team_name = team}

\* the transactions the next statement of slot c waits for
WaitsOn(c) ==
  LET f == call[c]
      head == Head(f.items)
  IN CASE f.pc = "at_create" -> TeamHolders(c, f.team)
       [] f.pc = "at_upsert" /\ f.members # <<>> -> UserHolders(c, Head(f.members).user_id)
       [] f.pc = "cp_insert" -> PRHolders(c, f.prID)
       [] f.pc = "mp_update" -> PRHolders(c, f.prID)
       [] f.pc = "ra_delete" -> DeleteWaits(c, <<f.prID, f.userID>>)
       [] f.pc = "ra_insert" -> InsertWaits(c, <<f.prID, f.cands[1]>>)
       [] f.pc = "bk_update" ->
            UNION {UserHolders(c, u) : u \in BulkMatch(f.team, f.deactivated)}
       [] f.pc \in {"bk_delete", "bk_remove"} -> DeleteWaits(c, <<head.PRID, head.OldUserID>>)
       [] f.pc = "bk_insert" -> InsertWaits(c, <<head.PRID, f.cands[1]>>)
       [] OTHER -> {}

\* two transactions wait for each other: the server aborts one of them
DeadlockAbort(c) ==
  /\ tx[c].open
  /\ \E d \in WaitsOn(c) : c \in WaitsOn(d)
  /\ Fail(c, pqError("deadlock detected"))
  /\ UNCHANGED <<db, ncalls, created_size, merge_returned>>

\* ---------------------------------------------------------------- AddTeam
\* an AddTeam that goes on to the insert without the test of exists
AddTeam_TeamExists_NoCheck(c, req) ==
  /\ CanEnter(c)
  /\ Start(c, [Idle EXCEPT !.op = "AddTeam", !.team = req.team_name,
                           !.members = req.members, !.pc = "at_create"], TRUE)
  /\ UNCHANGED <<db, created_size, merge_returned>>

\* WithTx begins; TeamExists(tx, name): select exists(...) on the transaction
AddTeam_TeamExists(c, req) ==
  /\ CanEnter(c)
  /\ LET f == [Idle EXCEPT !.op = "AddTeam", !.team = req.team_name,
                           !.members = req.members]
     IN IF req.team_name \in teams
        THEN Start(c, [f EXCEPT !.pc = "done",
                                !.err = wrapCode(ErrTeamExists, "team_name already exists")],
                   FALSE)
        ELSE Start(c, [f EXCEPT !.pc = "at_create"], TRUE)
  /\ UNCHANGED <<db, created_size, merge_returned>>

\* CreateTeam(tx, name): insert into teams; a committed duplicate is a
\* unique violation reported by the driver
AddTeam_CreateTeam(c) ==
  /\ At(c, "AddTeam", "at_create")
  /\ WaitsOn(c) = {}
  /\ IF call[c].team \in teams
     THEN Fail(c, pqError("duplicate key value violates unique constraint teams_pkey"))
     ELSE /\ tx' = [tx EXCEPT ![c].teams = @ \cup {call[c].team}]
          /\ Goto(c, "at_upsert")
  /\ UNCHANGED <<db, ncalls, created_size, merge_returned>>

\* an upsert whose conflict clause does nothing: a stored user keeps its row
AddTeam_UpsertUser_InsertOnly(c) ==
  /\ At(c, "AddTeam", "at_upsert")
  /\ call[c].members # <<>>
  /\ WaitsOn(c) = {}
  /\ LET m == Head(call[c].members)
     IN /\ tx' = [tx EXCEPT ![c].users =
                    IF m.user_id \in DOMAIN users THEN @
                    ELSE [u \in DOMAIN @ \cup {m.user_id} |->
                            IF u = m.user_id THEN UserRow(m, call[c].team) ELSE @[u]]]
        /\ call' = [call EXCEPT ![c].members = Tail(@)]
  /\ UNCHANGED <<db, ncalls, created_size, merge_returned>>

\* UpsertUser(tx, u) for the next member of the request
AddTeam_UpsertUser(c) ==
  /\ At(c, "AddTeam", "at_upsert")
  /\ call[c].members # <<>>
  /\ WaitsOn(c) = {}
  /\ LET m == Head(call[c].members)
     IN /\ tx' = [tx EXCEPT ![c].users =
                    [u \in DOMAIN @ \cup {m.user_id} |->
                       IF u = m.user_id THEN UserRow(m, call[c].team) ELSE @[u]]]
        /\ call' = [call EXCEPT ![c].members = Tail(@)]
  /\ UNCHANGED <<db, ncalls, created_size, merge_returned>>

AddTeam_Commit(c) ==
  /\ At(c, "AddTeam", "at_upsert")
  /\ call[c].members = <<>>
  /\ WithTxCommit(c)
  /\ Goto(c, "at_members")
  /\ UNCHANGED <<ncalls, created_size, merge_returned>>

\* GetTeamMembers(name): the members of the response, ordered by user_id
GetTeamMembers(teamName) ==
  SelectSeq(UserOrder, LAMBDA u : u \in DOMAIN users /\ users[u].team_name = teamName)

AddTeam_GetTeamMembers(c) ==
  /\ At(c, "AddTeam", "at_members")
  /\ call' = [call EXCEPT ![c].pc = "done",
                          ![c].outMembers = GetTeamMembers(call[c].team)]
  /\ UNCHANGED <<db, tx, ncalls, created_size, merge_returned>>

\* ---------------------------------------------------------------- SetIsActive
\* a GetUser that answers for unknown ids too
GetUser_Anonymous(uID) ==
  IF uID \in DOMAIN users
  THEN [user_id |-> uID, username |-> users[uID].username,
        team_name |-> users[uID].team_name, is_active |-> users[uID].is_active]
  ELSE [NoUser EXCEPT !.user_id = uID]

\* select ... from users where user_id=$1; sql.ErrNoRows is NOT_FOUND
GetUser(uID) ==
  IF uID \in DOMAIN users
  THEN [user_id |-> uID, username |-> users[uID].username,
        team_name |-> users[uID].team_name, is_active |-> users[uID].is_active]
  ELSE NoUser

\* a SetIsActive that also drops the reviewer rows of a user it deactivates
SetIsActive_Reconciling(c, uID, active) ==
  /\ CanEnter(c)
  /\ (uID \in DOMAIN users => UserHolders(c, uID) = {})
  /\ LET f == [Idle EXCEPT !.op = "SetIsActive", !.userID = uID, !.active = active]
         kept == {k \in DOMAIN pr_reviewers : active \/ k[2] # uID}
     IN IF uID \notin DOMAIN users
        THEN /\ Start(c, [f EXCEPT !.pc = "done",
                                   !.err = wrapCode(ErrNotFound, "user not found")], FALSE)
             /\ UNCHANGED <<users, pr_reviewers>>
        ELSE /\ Start(c, [f EXCEPT !.pc = "done",
                                   !.outUser = [GetUser(uID) EXCEPT !.is_active = active]],
                        FALSE)
             /\ users' = [users EXCEPT ![uID].is_active = active]
             /\ pr_reviewers' = [k \in kept |-> pr_reviewers[k]]
  /\ UNCHANGED <<teams, pull_requests, created_size, merge_returned>>

\* SetUserActive on r.db: update users set is_active=$1 where user_id=$2, then
\* return r.GetUser(uID), which shapes the response only
SetIsActive_SetUserActive(c, uID, active) ==
  /\ CanEnter(c)
  /\ (uID \in DOMAIN users => UserHolders(c, uID) = {})
  /\ LET f == [Idle EXCEPT !.op = "SetIsActive", !.userID = uID, !.active = active]
     IN IF uID \notin DOMAIN users
        THEN /\ Start(c, [f EXCEPT !.pc = "done",
                                   !.err = wrapCode(ErrNotFound, "user not found")], FALSE)
             /\ UNCHANGED users
        ELSE /\ Start(c, [f EXCEPT !.pc = "done",
                                   !.outUser = [GetUser(uID) EXCEPT !.is_active = active]],
                        FALSE)
             /\ users' = [users EXCEPT ![uID].is_active = active]
  /\ UNCHANGED <<teams, pull_requests, pr_reviewers, created_size, merge_returned>>

\* ---------------------------------------------------------------- CreatePR
\* WithTx begins; if _, err := s.repo.GetPR(prID); err == nil { return PR_EXISTS }
CreatePR_GetPR(c, prID, name, authorID) ==
  /\ CanEnter(c)
  /\ LET f == [Idle EXCEPT !.op = "CreatePR", !.prID = prID, !.prName = name,
                           !.userID = authorID]
     IN IF GetPR(prID) # NoPR
        THEN Start(c, [f EXCEPT !.pc = "done",
                                !.err = wrapCode(ErrPRExists, "PR id already exists")], FALSE)
        ELSE Start(c, [f EXCEPT !.pc = "cp_getuser"], TRUE)
  /\ UNCHANGED <<db, created_size, merge_returned>>

\* author, err := s.repo.GetUser(authorID)
CreatePR_GetUser(c) ==
  /\ At(c, "CreatePR", "cp_getuser")
  /\ IF GetUser(call[c].userID) = NoUser
     THEN Fail(c, wrapCode(ErrNotFound, "user not found"))
     ELSE /\ call' = [call EXCEPT ![c].pc = "cp_insert",
                                  ![c].team = GetUser(call[c].userID).team_name]
          /\ UNCHANGED tx
  /\ UNCHANGED <<db, ncalls, created_size, merge_returned>>

\* s.repo.CreatePR(tx, pr): insert into pull_requests ... 'OPEN', now()
CreatePR_Insert(c) ==
  /\ At(c, "CreatePR", "cp_insert")
  /\ WaitsOn(c) = {}
  /\ IF call[c].prID \in DOMAIN pull_requests
     THEN Fail(c, pqError("duplicate key value violates unique constraint pull_requests_pkey"))
     ELSE /\ tx' = [tx EXCEPT ![c].prs =
                      [p \in {call[c].prID} |->
                         [pr_name |-> call[c].prName, author_id |-> call[c].userID,
                          status |-> StatusOPEN, merged_at |-> 0]]]
          /\ Goto(c, "cp_pick")
  /\ UNCHANGED <<db, ncalls, created_size, merge_returned>>

\* the exclusion list CreatePR hands to the selection
CreateExclude(authorID) == {authorID}

\* cands := PickReviewersFromTeam(prID, team, []string{authorID}, 2);
\* AssignReviewers(tx, prID, cands): the rows belong to a PR no other
\* transaction can see yet, so the inserts never wait
CreatePR_PickAssign(c) ==
  /\ At(c, "CreatePR", "cp_pick")
  /\ LET cands == PickReviewersFromTeam(call[c].prID, call[c].team,
                                        CreateExclude(call[c].userID), 2)
     IN /\ call' = [call EXCEPT ![c].pc = "cp_commit", ![c].cands = cands]
        /\ tx' = [tx EXCEPT ![c] = AssignReviewers(@, call[c].prID, cands)]
  /\ UNCHANGED <<db, ncalls, created_size, merge_returned>>

CreatePR_Commit(c) ==
  /\ At(c, "CreatePR", "cp_commit")
  /\ WithTxCommit(c)
  /\ created_size' =
       [p \in DOMAIN created_size \cup {call[c].prID} |->
          IF p = call[c].prID
          THEN Cardinality({k \in tx[c].ins : k[1] = p})
          ELSE created_size[p]]
  /\ Goto(c, "cp_resp")
  /\ UNCHANGED <<ncalls, merge_returned>>

\* after the commit: pr := GetPR(prID); pr.AssignedReviewers = GetAssignedReviewers(prID)
Response(c) ==
  IF GetPR(call[c].prID) = NoPR
  THEN [call EXCEPT ![c].pc = "done", ![c].err = wrapCode(ErrNotFound, "PR not found")]
  ELSE [call EXCEPT ![c].pc = "done", ![c].out = GetPR(call[c].prID)]

CreatePR_Response(c) ==
  /\ At(c, "CreatePR", "cp_resp")
  /\ call' = Response(c)
  /\ UNCHANGED <<db, tx, ncalls, created_size, merge_returned>>

\* ---------------------------------------------------------------- MergePR
\* MergePR without its test of the status
AlreadyMerged_Never(pr) == FALSE

\* if pr.Status == StatusMERGED { out = pr; return nil }
AlreadyMerged(pr) == pr.status = StatusMERGED

\* WithTx begins; pr, err := s.repo.GetPR(prID)
MergePR_GetPR(c, prID) ==
  /\ CanEnter(c)
  /\ LET f == [Idle EXCEPT !.op = "MergePR", !.prID = prID, !.pr = GetPR(prID)]
     IN IF GetPR(prID) = NoPR
        THEN Start(c, [f EXCEPT !.pc = "done",
                                !.err = wrapCode(ErrNotFound, "PR not found")], FALSE)
        ELSE IF AlreadyMerged(GetPR(prID))
        THEN Start(c, [f EXCEPT !.pc = "mp_resp", !.out = GetPR(prID)], FALSE)
        ELSE Start(c, [f EXCEPT !.pc = "mp_update", !.now = ncalls + 1], TRUE)
  /\ UNCHANGED <<db, created_size, merge_returned>>

\* SetPRMerged(tx, prID): the update on the transaction, then r.GetPR(prID)
\* on the pool, which reads the committed row
MergePR_SetPRMerged(c) ==
  /\ At(c, "MergePR", "mp_update")
  /\ WaitsOn(c) = {}
  /\ tx' = [tx EXCEPT ![c].merged = @ \cup {call[c].prID}]
  /\ call' = [call EXCEPT ![c].pc = "mp_commit", ![c].out = GetPR(call[c].prID)]
  /\ UNCHANGED <<db, ncalls, created_size, merge_returned>>

MergePR_Commit(c) ==
  /\ At(c, "MergePR", "mp_commit")
  /\ WithTxCommit(c)
  /\ Goto(c, "mp_resp")
  /\ UNCHANGED <<ncalls, created_size, merge_returned>>

\* revs, _ := s.repo.GetAssignedReviewers(prID); out.AssignedReviewers = revs
MergePR_Response(c) ==
  /\ At(c, "MergePR", "mp_resp")
  /\ call' = [call EXCEPT ![c].pc = "done",
                          ![c].out.assigned_reviewers = GetAssignedReviewers(call[c].prID)]
  /\ merge_returned' =
       IF call[c].prID \in DOMAIN merge_returned THEN merge_returned
       ELSE [p \in DOMAIN merge_returned \cup {call[c].prID} |->
               IF p = call[c].prID
               THEN [status |-> call[c].out.status, merged_at |-> call[c].out.merged_at]
               ELSE merge_returned[p]]
  /\ UNCHANGED <<db, tx, ncalls, created_size>>

\* ---------------------------------------------------------------- Reassign
\* Reassign without its test of the status
ReassignRefused_Never(pr) == FALSE

\* if pr.Status == StatusMERGED { return PR_MERGED }
ReassignRefused(pr) == pr.status = StatusMERGED

\* WithTx begins; pr, err := s.repo.GetPR(prID)
Reassign_GetPR(c, prID, oldUserID) ==
  /\ CanEnter(c)
  /\ LET f == [Idle EXCEPT !.op = "Reassign", !.prID = prID, !.userID = oldUserID,
                           !.pr = GetPR(prID)]
     IN IF GetPR(prID) = NoPR
        THEN Start(c, [f EXCEPT !.pc = "done",
                                !.err = wrapCode(ErrNotFound, "PR not found")], FALSE)
        ELSE IF ReassignRefused(GetPR(prID))
        THEN Start(c, [f EXCEPT !.pc = "done",
                                !.err = wrapCode(ErrPRMerged, "cannot reassign on merged PR")],
                   FALSE)
        ELSE Start(c, [f EXCEPT !.pc = "ra_assigned"], TRUE)
  /\ UNCHANGED <<db, created_size, merge_returned>>

\* Reassign without its test that the old user is assigned
Reassign_GetAssigned_NoCheck(c) ==
  /\ At(c, "Reassign", "ra_assigned")
  /\ call' = [call EXCEPT ![c].pc = "ra_getuser",
                          ![c].assigned = GetAssignedReviewers(call[c].prID)]
  /\ UNCHANGED <<db, tx, ncalls, created_size, merge_returned>>

\* assigned, err := s.repo.GetAssignedReviewers(prID); found := oldUserID in assigned
Reassign_GetAssigned(c) ==
  /\ At(c, "Reassign", "ra_assigned")
  /\ IF call[c].userID \notin SeqToSet(GetAssignedReviewers(call[c].prID))
     THEN /\ call' = [call EXCEPT ![c].pc = "done",
                        ![c].assigned = GetAssignedReviewers(call[c].prID),
                        ![c].err = wrapCode(ErrNotAssigned, "reviewer is not assigned to this PR")]
          /\ tx' = [tx EXCEPT ![c] = NoTx]
     ELSE /\ call' = [call EXCEPT ![c].pc = "ra_getuser",
                        ![c].assigned = GetAssignedReviewers(call[c].prID)]
          /\ UNCHANGED tx
  /\ UNCHANGED <<db, ncalls, created_size, merge_returned>>

\* oldUser, err := s.repo.GetUser(oldUserID)
Reassign_GetUser(c) ==
  /\ At(c, "Reassign", "ra_getuser")
  /\ IF GetUser(call[c].userID) = NoUser
     THEN Fail(c, wrapCode(ErrNotFound, "user not found"))
     ELSE /\ call' = [call EXCEPT ![c].pc = "ra_pick",
                                  ![c].team = GetUser(call[c].userID).team_name]
          /\ UNCHANGED tx
  /\ UNCHANGED <<db, ncalls, created_size, merge_returned>>

\* the exclusion list without the author
ReassignExclude_NoAuthor(assigned, authorID) == SeqToSet(assigned)

\* excl := append(assigned, pr.AuthorID)
ReassignExclude(assigned, authorID) == SeqToSet(assigned) \cup {authorID}

\* cands, err := s.repo.PickReviewersFromTeam(prID, oldUser.TeamName, excl, 1)
Reassign_Pick(c) ==
  /\ At(c, "Reassign", "ra_pick")
  /\ LET cands == PickReviewersFromTeam(call[c].prID, call[c].team,
                    ReassignExclude(call[c].assigned, call[c].pr.author_id), 1)
     IN IF cands = <<>>
        THEN Fail(c, wrapCode(ErrNoCandidate, "no active replacement candidate in team"))
        ELSE /\ call' = [call EXCEPT ![c].pc = "ra_delete", ![c].cands = cands]
             /\ UNCHANGED tx
  /\ UNCHANGED <<db, ncalls, created_size, merge_returned>>

\* ReplaceReviewer(tx, prID, oldUserID, cands[0]): the delete
Reassign_ReplaceDelete(c) ==
  /\ At(c, "Reassign", "ra_delete")
  /\ WaitsOn(c) = {}
  /\ tx' = [tx EXCEPT ![c] = DeleteReviewerRow(@, <<call[c].prID, call[c].userID>>)]
  /\ Goto(c, "ra_insert")
  /\ UNCHANGED <<db, ncalls, created_size, merge_returned>>

\* ReplaceReviewer(tx, prID, oldUserID, cands[0]): the insert; replacedBy = cands[0]
Reassign_ReplaceInsert(c) ==
  /\ At(c, "Reassign", "ra_insert")
  /\ WaitsOn(c) = {}
  /\ tx' = [tx EXCEPT ![c] = InsertReviewer(@, <<call[c].prID, call[c].cands[1]>>)]
  /\ call' = [call EXCEPT ![c].pc = "ra_commit", ![c].replacedBy = call[c].cands[1]]
  /\ UNCHANGED <<db, ncalls, created_size, merge_returned>>

Reassign_Commit(c) ==
  /\ At(c, "Reassign", "ra_commit")
  /\ WithTxCommit(c)
  /\ Goto(c, "ra_resp")
  /\ UNCHANGED <<ncalls, created_size, merge_returned>>

Reassign_Response(c) ==
  /\ At(c, "Reassign", "ra_resp")
  /\ call' = Response(c)
  /\ UNCHANGED <<db, tx, ncalls, created_size, merge_returned>>

\* ---------------------------------------------------------------- BulkDeactivateAndReassign
PROrder == <<"pr-1", "pr-2">>

RECURSIVE Perms(_)
Perms(S) ==
  IF S = {} THEN {<<>>}
  ELSE UNION {{<<x>> \o q : q \in Perms(S \ {x})} : x \in S}

\* the rows of one PR without the test of its status
OpenItems_AnyStatus(prID, userIDs) ==
  LET hit == IF prID \in DOMAIN pull_requests
             THEN {u \in userIDs : BagIn(<<prID, u>>, pr_reviewers) /\ u \in DOMAIN users}
             ELSE {}
  IN {[i \in 1..Len(q) |->
         [PRID |-> prID, AuthorID |-> pull_requests[prID].author_id,
          OldUserID |-> q[i], OldUserTeam |-> users[q[i]].team_name]] : q \in Perms(hit)}

\* the rows of one PR that ListOpenAssignmentsByUsers returns, in any order
\* (the query orders by pr_id only)
OpenItems(prID, userIDs) ==
  LET hit == IF prID \in DOMAIN pull_requests /\ pull_requests[prID].status = StatusOPEN
             THEN {u \in userIDs : BagIn(<<prID, u>>, pr_reviewers) /\ u \in DOMAIN users}
             ELSE {}
  IN {[i \in 1..Len(q) |->
         [PRID |-> prID, AuthorID |-> pull_requests[prID].author_id,
          OldUserID |-> q[i], OldUserTeam |-> users[q[i]].team_name]] : q \in Perms(hit)}

ListOpenAssignmentsByUsers(userIDs) ==
  {a \o b : a \in OpenItems(PROrder[1], userIDs), b \in OpenItems(PROrder[2], userIDs)}

\* WithTx begins; BulkDeactivateUsers on r.db: the select of the target ids
\* (wasActive is history: the users that were active when the call began)
Bulk_SelectTargets(c, req) ==
  /\ CanEnter(c)
  /\ LET f == [Idle EXCEPT !.op = "BulkDeactivateAndReassign", !.team = req.team_name,
                           !.userIDs = req.user_ids,
                           !.wasActive = {u \in DOMAIN users : users[u].is_active}]
         target == BulkMatch(req.team_name, req.user_ids)
     IN IF target = {}
        THEN Start(c, [f EXCEPT !.pc = "done"], FALSE)
        ELSE Start(c, [f EXCEPT !.pc = "bk_update", !.deactivated = target], TRUE)
  /\ UNCHANGED <<db, created_size, merge_returned>>

\* BulkDeactivateUsers on r.db: update users set is_active=false
\* where team_name=$1 and user_id = any(target); it commits at once
Bulk_Update(c) ==
  /\ At(c, "BulkDeactivateAndReassign", "bk_update")
  /\ WaitsOn(c) = {}
  /\ users' = [u \in DOMAIN users |->
                 IF u \in BulkMatch(call[c].team, call[c].deactivated)
                 THEN [users[u] EXCEPT !.is_active = FALSE]
                 ELSE users[u]]
  /\ Goto(c, "bk_list")
  /\ UNCHANGED <<teams, pull_requests, pr_reviewers, tx, ncalls, created_size, merge_returned>>

\* open, err := s.repo.ListOpenAssignmentsByUsers(deactivated)
Bulk_ListOpen(c) ==
  /\ At(c, "BulkDeactivateAndReassign", "bk_list")
  /\ \E open \in ListOpenAssignmentsByUsers(call[c].deactivated) :
       call' = [call EXCEPT ![c].items = open,
                            ![c].pc = IF open = <<>> THEN "bk_commit" ELSE "bk_assigned"]
  /\ UNCHANGED <<db, tx, ncalls, created_size, merge_returned>>

\* assigned, err := s.repo.GetAssignedReviewers(item.PRID)
Bulk_GetAssigned(c) ==
  /\ At(c, "BulkDeactivateAndReassign", "bk_assigned")
  /\ call' = [call EXCEPT ![c].pc = "bk_pick",
                          ![c].assigned = GetAssignedReviewers(Head(call[c].items).PRID)]
  /\ UNCHANGED <<db, tx, ncalls, created_size, merge_returned>>

\* excl := append(append([]string{}, assigned...), item.AuthorID)
BulkExclude(assigned, authorID) == SeqToSet(assigned) \cup {authorID}

\* cands, err := s.repo.PickReviewersFromTeam(item.PRID, item.OldUserTeam, excl, 1)
Bulk_Pick(c) ==
  /\ At(c, "BulkDeactivateAndReassign", "bk_pick")
  /\ LET item == Head(call[c].items)
         cands == PickReviewersFromTeam(item.PRID, item.OldUserTeam,
                                        BulkExclude(call[c].assigned, item.AuthorID), 1)
     IN call' = [call EXCEPT ![c].cands = cands,
                             ![c].pc = IF Len(cands) > 0 THEN "bk_delete" ELSE "bk_remove"]
  /\ UNCHANGED <<db, tx, ncalls, created_size, merge_returned>>

\* ReplaceReviewer(tx, item.PRID, item.OldUserID, cands[0]): the delete
Bulk_ReplaceDelete(c) ==
  /\ At(c, "BulkDeactivateAndReassign", "bk_delete")
  /\ WaitsOn(c) = {}
  /\ LET item == Head(call[c].items)
     IN tx' = [tx EXCEPT ![c] = DeleteReviewerRow(@, <<item.PRID, item.OldUserID>>)]
  /\ Goto(c, "bk_insert")
  /\ UNCHANGED <<db, ncalls, created_size, merge_returned>>

\* the loop left after its first item
NextItem_Stop(rest) == "bk_commit"

\* for _, item := range open: the next item, or the end of the closure
NextItem(rest) == IF rest = <<>> THEN "bk_commit" ELSE "bk_assigned"

\* ReplaceReviewer: the insert; the outcome "replaced" is appended
Bulk_ReplaceInsert(c) ==
  /\ At(c, "BulkDeactivateAndReassign", "bk_insert")
  /\ WaitsOn(c) = {}
  /\ LET item == Head(call[c].items)
     IN /\ tx' = [tx EXCEPT ![c] = InsertReviewer(@, <<item.PRID, call[c].cands[1]>>)]
        /\ call' = [call EXCEPT
             ![c].outcomes = Append(@, [PRID |-> item.PRID, OldUserID |-> item.OldUserID,
                                        Action |-> "replaced",
                                        ReplacedBy |-> call[c].cands[1]]),
             ![c].items = Tail(@),
             ![c].pc = NextItem(Tail(call[c].items))]
  /\ UNCHANGED <<db, ncalls, created_size, merge_returned>>

\* DeleteReviewer(tx, item.PRID, item.OldUserID); the outcome "removed" is appended
Bulk_DeleteReviewer(c) ==
  /\ At(c, "BulkDeactivateAndReassign", "bk_remove")
  /\ WaitsOn(c) = {}
  /\ LET item == Head(call[c].items)
     IN /\ tx' = [tx EXCEPT ![c] = DeleteReviewerRow(@, <<item.PRID, item.OldUserID>>)]
        /\ call' = [call EXCEPT
             ![c].outcomes = Append(@, [PRID |-> item.PRID, OldUserID |-> item.OldUserID,
                                        Action |-> "removed", ReplacedBy |-> ""]),
             ![c].items = Tail(@),
             ![c].pc = NextItem(Tail(call[c].items))]
  /\ UNCHANGED <<db, ncalls, created_size, merge_returned>>

Bulk_Commit(c) ==
  /\ At(c, "BulkDeactivateAndReassign", "bk_commit")
  /\ WithTxCommit(c)
  /\ Goto(c, "done")
  /\ UNCHANGED <<ncalls, created_size, merge_returned>>

\* ---------------------------------------------------------------- GetTeam
\* a GetTeam that answers NOT_FOUND by the teams table instead
GetTeam_ByTeamsTable(c, teamName) ==
  /\ CanEnter(c)
  /\ LET f == [Idle EXCEPT !.op = "GetTeam", !.team = teamName, !.pc = "done"]
     IN IF teamName \notin teams
        THEN Start(c, [f EXCEPT !.err = wrapCode(ErrNotFound, "team not found")], FALSE)
        ELSE Start(c, [f EXCEPT !.outMembers = GetTeamMembers(teamName)], FALSE)
  /\ UNCHANGED <<db, created_size, merge_returned>>

\* members := GetTeamMembers(name) on r.db; if len(members) == 0: NOT_FOUND
GetTeam_GetTeamMembers(c, teamName) ==
  /\ CanEnter(c)
  /\ LET f == [Idle EXCEPT !.op = "GetTeam", !.team = teamName, !.pc = "done"]
     IN IF Len(GetTeamMembers(teamName)) = 0
        THEN Start(c, [f EXCEPT !.err = wrapCode(ErrNotFound, "team not found")], FALSE)
        ELSE Start(c, [f EXCEPT !.outMembers = GetTeamMembers(teamName)], FALSE)
  /\ UNCHANGED <<db, created_size, merge_returned>>

\* ---------------------------------------------------------------- StatsAssignments
\* the group_by of the /stats/assignments requests ("" is sent as "all")
GroupBys == {"user", "pr", "all"}

\* count(*) over the rows of pr_reviewers whose key is in keys
RowCount(keys) == BagCardinality([k \in keys |-> pr_reviewers[k]])

\* a count that joins pull_requests and leaves out the PRs that are MERGED
StatsAssignmentsByUser_OpenOnly ==
  LET open == {k \in DOMAIN pr_reviewers :
                 k[1] \in DOMAIN pull_requests
                   /\ pull_requests[k[1]].status = StatusOPEN}
  IN [u \in {k[2] : k \in open} |-> RowCount({k \in open : k[2] = u})]

\* select user_id, count(*) from pr_reviewers group by user_id
StatsAssignmentsByUser ==
  [u \in {k[2] : k \in DOMAIN pr_reviewers} |->
     RowCount({k \in DOMAIN pr_reviewers : k[2] = u})]

\* select pr_id, count(*) from pr_reviewers group by pr_id
StatsAssignmentsByPR ==
  [p \in {k[1] : k \in DOMAIN pr_reviewers} |->
     RowCount({k \in DOMAIN pr_reviewers : k[1] = p})]

\* switch groupBy: the first query of the case; "user" and "pr" have one
\* query, the default case goes on to its second
Stats_First(c, groupBy) ==
  /\ CanEnter(c)
  /\ LET f == [Idle EXCEPT !.op = "StatsAssignments", !.groupBy = groupBy]
     IN CASE groupBy = "user" ->
               Start(c, [f EXCEPT !.pc = "done", !.byUser = StatsAssignmentsByUser], FALSE)
          [] groupBy = "pr" ->
               Start(c, [f EXCEPT !.pc = "done", !.byPR = StatsAssignmentsByPR], FALSE)
          [] OTHER ->
               Start(c, [f EXCEPT !.pc = "st_bypr", !.byUser = StatsAssignmentsByUser], FALSE)
  /\ UNCHANGED <<db, created_size, merge_returned>>

\* default case: mp, err := s.repo.StatsAssignmentsByPR()
Stats_ByPR(c) ==
  /\ At(c, "StatsAssignments", "st_bypr")
  /\ call' = [call EXCEPT ![c].pc = "done", ![c].byPR = StatsAssignmentsByPR]
  /\ UNCHANGED <<db, tx, ncalls, created_size, merge_returned>>

\* ---------------------------------------------------------------- Next
AddTeam(c) ==
  \/ \E req \in TeamRequests : AddTeam_TeamExists(c, req)
  \/ AddTeam_CreateTeam(c)
  \/ AddTeam_UpsertUser(c)
  \/ AddTeam_Commit(c)
  \/ AddTeam_GetTeamMembers(c)

SetIsActive(c) ==
  \E uID \in ToggleIds, active \in BOOLEAN : SetIsActive_SetUserActive(c, uID, active)

CreatePR(c) ==
  \/ \E prID \in PRIds, name \in PRNames, authorID \in AuthorIds :
       CreatePR_GetPR(c, prID, name, authorID)
  \/ CreatePR_GetUser(c)
  \/ CreatePR_Insert(c)
  \/ CreatePR_PickAssign(c)
  \/ CreatePR_Commit(c)
  \/ CreatePR_Response(c)

MergePR(c) ==
  \/ \E prID \in PRIds : MergePR_GetPR(c, prID)
  \/ MergePR_SetPRMerged(c)
  \/ MergePR_Commit(c)
  \/ MergePR_Response(c)

Reassign(c) ==
  \/ \E prID \in PRIds, oldUserID \in UserIds : Reassign_GetPR(c, prID, oldUserID)
  \/ Reassign_GetAssigned(c)
  \/ Reassign_GetUser(c)
  \/ Reassign_Pick(c)
  \/ Reassign_ReplaceDelete(c)
  \/ Reassign_ReplaceInsert(c)
  \/ Reassign_Commit(c)
  \/ Reassign_Response(c)

GetTeam(c) ==
  \E teamName \in TeamNames : GetTeam_GetTeamMembers(c, teamName)

StatsAssignments(c) ==
  \/ \E groupBy \in GroupBys : Stats_First(c, groupBy)
  \/ Stats_ByPR(c)

BulkDeactivateAndReassign(c) ==
  \/ \E req \in BulkRequests : Bulk_SelectTargets(c, req)
  \/ Bulk_Update(c)
  \/ Bulk_ListOpen(c)
  \/ Bulk_GetAssigned(c)
  \/ Bulk_Pick(c)
  \/ Bulk_ReplaceDelete(c)
  \/ Bulk_ReplaceInsert(c)
  \/ Bulk_DeleteReviewer(c)
  \/ Bulk_Commit(c)

Next ==
  \E c \in Slots :
    \/ AddTeam(c)
    \/ GetTeam(c)
    \/ SetIsActive(c)
    \/ CreatePR(c)
    \/ MergePR(c)
    \/ Reassign(c)
    \/ BulkDeactivateAndReassign(c)
    \/ StatsAssignments(c)
    \/ DeadlockAbort(c)
    \/ Return(c)

Spec == Init /\ [][Next]_vars

\* ---------------------------------------------------------------- selection alone
\* PickReviewersFromTeam applied to inputs drawn from small sets, between
\* committed changes of the users table.  A slot keeps the last selection
\* made in it: its inputs, the active users of the team it ran against
\* (pool) and its result (cands).
PickExcludes == {{"u1"}, {"u1", "u4", "u5"}, {"u3", "u4", "u5"}}
PickLimits == {1, 2}
PickToggleIds == {"u1", "u3"}

Pick_Select(c, prID, team, exclude, limit) ==
  /\ call' = [call EXCEPT ![c] =
                [Idle EXCEPT !.op = "PickReviewersFromTeam", !.pc = "picked",
                             !.prID = prID, !.team = team,
                             !.exclude = exclude, !.limit = limit,
                             !.pool = {u \in DOMAIN users :
                                         users[u].team_name = team /\ users[u].is_active},
                             !.cands = PickReviewersFromTeam(prID, team, exclude, limit)]]
  /\ UNCHANGED <<db, tx, ncalls, created_size, merge_returned>>

\* what a SetIsActive that ran in between has committed
Pick_SetUserActive(uID, active) ==
  /\ uID \in DOMAIN users
  /\ users[uID].is_active # active
  /\ users' = [users EXCEPT ![uID].is_active = active]
  /\ UNCHANGED <<teams, pull_requests, pr_reviewers, call, tx, ncalls,
                 created_size, merge_returned>>

\* what an AddTeam that ran in between has committed
Pick_AddTeam(req) ==
  /\ req.team_name \notin teams
  /\ teams' = teams \cup {req.team_name}
  /\ users' = Upserted(users, req.team_name, req.members)
  /\ UNCHANGED <<pull_requests, pr_reviewers, call, tx, ncalls,
                 created_size, merge_returned>>

NextPick ==
  \/ \E c \in Slots, prID \in PRIds, team \in TeamNames,
        exclude \in PickExcludes, limit \in PickLimits :
       Pick_Select(c, prID, team, exclude, limit)
  \/ \E uID \in PickToggleIds, active \in BOOLEAN : Pick_SetUserActive(uID, active)
  \/ \E req \in TeamRequests : Pick_AddTeam(req)

SpecPick == Init /\ [][NextPick]_vars

\* ---------------------------------------------------------------- the connection pool
\* CreatePR and MergePR with the connections of *sql.DB counted.  main sets
\* db.SetMaxOpenConns(10); the model gives the pool as many connections as it
\* has concurrent calls.  r.db.Begin() takes a connection and the transaction
\* keeps it until Commit or Rollback; every statement on r.db takes a further
\* connection for its duration and waits, without a timeout, while none is
\* free.  Statements on tx use the connection of the transaction.
MaxOpenConns == Cardinality(Slots)

\* connections held by open transactions
InUse == Cardinality({c \in Slots : tx[c].open})
\* a statement on r.db (Begin included) can get a connection
ConnFree == InUse < MaxOpenConns

\* WithTx: tx, err := r.db.Begin()
Pool_CreatePR_Begin(c, prID, name, authorID) ==
  /\ CanEnter(c)
  /\ ConnFree
  /\ Start(c, [Idle EXCEPT !.op = "CreatePR", !.pc = "cp_begin", !.prID = prID,
                           !.prName = name, !.userID = authorID], TRUE)
  /\ UNCHANGED <<db, created_size, merge_returned>>

\* if _, err := s.repo.GetPR(prID); err == nil { return PR_EXISTS }
Pool_CreatePR_GetPR(c) ==
  /\ At(c, "CreatePR", "cp_begin")
  /\ ConnFree
  /\ IF GetPR(call[c].prID) # NoPR
     THEN Fail(c, wrapCode(ErrPRExists, "PR id already exists"))
     ELSE Goto(c, "cp_getuser") /\ UNCHANGED tx
  /\ UNCHANGED <<db, ncalls, created_size, merge_returned>>

\* WithTx: tx, err := r.db.Begin(); now() of the transaction is fixed here
Pool_MergePR_Begin(c, prID) ==
  /\ CanEnter(c)
  /\ ConnFree
  /\ Start(c, [Idle EXCEPT !.op = "MergePR", !.pc = "mp_begin", !.prID = prID,
                           !.now = ncalls + 1], TRUE)
  /\ UNCHANGED <<db, created_size, merge_returned>>

\* pr, err := s.repo.GetPR(prID); a PR found MERGED ends the closure, and
\* WithTx commits the transaction without a write
Pool_MergePR_GetPR(c) ==
  /\ At(c, "MergePR", "mp_begin")
  /\ ConnFree
  /\ IF GetPR(call[c].prID) = NoPR
     THEN Fail(c, wrapCode(ErrNotFound, "PR not found"))
     ELSE /\ call' = [call EXCEPT
                 ![c].pr = GetPR(call[c].prID),
                 ![c].out = IF AlreadyMerged(GetPR(call[c].prID))
                            THEN GetPR(call[c].prID) ELSE @,
                 ![c].pc = IF AlreadyMerged(GetPR(call[c].prID))
                           THEN "mp_commit" ELSE "mp_update"]
          /\ UNCHANGED tx
  /\ UNCHANGED <<db, ncalls, created_size, merge_returned>>

\* the steps of the two use cases; those that run a statement on r.db need a
\* free connection
Pool_CreatePR(c) ==
  \/ \E prID \in PRIds, name \in PRNames, authorID \in AuthorIds :
       Pool_CreatePR_Begin(c, prID, name, authorID)
  \/ Pool_CreatePR_GetPR(c)
  \/ ConnFree /\ CreatePR_GetUser(c)
  \/ CreatePR_Insert(c)
  \/ ConnFree /\ CreatePR_PickAssign(c)
  \/ CreatePR_Commit(c)
  \/ ConnFree /\ CreatePR_Response(c)

Pool_MergePR(c) ==
  \/ \E prID \in PRIds : Pool_MergePR_Begin(c, prID)
  \/ Pool_MergePR_GetPR(c)
  \/ ConnFree /\ MergePR_SetPRMerged(c)
  \/ MergePR_Commit(c)
  \/ ConnFree /\ MergePR_Response(c)

NextPool ==
  \E c \in Slots :
    \/ Pool_CreatePR(c)
    \/ Pool_MergePR(c)
    \/ Return(c)

SpecPool == Init /\ [][NextPool]_vars

\* ---------------------------------------------------------------- the access check
RoleNone == 0
RoleUser == 1
RoleAdmin == 2

\* the Auth values NewHandlers is given: the tokens of the tests, an unset
\* token on either side, and one token configured for both roles
Auths ==
  {[AdminToken |-> "admin", UserToken |-> "user"],
   [AdminToken |-> "", UserToken |-> "user"],
   [AdminToken |-> "admin", UserToken |-> ""],
   [AdminToken |-> "", UserToken |-> ""],
   [AdminToken |-> "admin", UserToken |-> "admin"]}

\* Authorization header values: none, "Bearer " alone, a bearer token that is
\* the admin's, the user's or nobody's, the token without the scheme, and
\* the scheme in lower case
Headers ==
  {NoHeader,
   [lead |-> "Bearer ", rest |-> ""],
   [lead |-> "Bearer ", rest |-> "admin"],
   [lead |-> "Bearer ", rest |-> "user"],
   [lead |-> "Bearer ", rest |-> "guess"],
   [lead |-> "", rest |-> "admin"],
   [lead |-> "bearer ", rest |-> "admin"]}

HasPrefix(auth, prefix) == auth.lead = prefix
TrimPrefix(auth, prefix) == IF HasPrefix(auth, prefix) THEN auth.rest ELSE auth.lead \o auth.rest

RoleFrom_EmptyTokenMatches(a, auth) ==
  IF HasPrefix(auth, "Bearer ")
  THEN LET t == TrimPrefix(auth, "Bearer ")
       IN IF t = a.AdminToken THEN RoleAdmin
          ELSE IF t = a.UserToken THEN RoleUser
          ELSE RoleNone
  ELSE RoleNone

RoleFrom(a, auth) ==
  IF HasPrefix(auth, "Bearer ")
  THEN LET t == TrimPrefix(auth, "Bearer ")
       IN IF t = a.AdminToken /\ t # "" THEN RoleAdmin
          ELSE IF t = a.UserToken /\ t # "" THEN RoleUser
          ELSE RoleNone
  ELSE RoleNone

\* Register: the role each route is wrapped with
Routes ==
  {"/health", "/team/add", "/team/get", "/users/setIsActive", "/users/getReview",
   "/users/bulkDeactivate", "/pullRequest/create", "/pullRequest/merge",
   "/pullRequest/reassign", "/stats/assignments"}

Register ==
  [route \in Routes |->
     CASE route = "/health" -> RoleNone
       [] route = "/team/add" -> RoleAdmin
       [] route = "/team/get" -> RoleUser
       [] route = "/users/setIsActive" -> RoleAdmin
       [] route = "/users/getReview" -> RoleUser
       [] route = "/users/bulkDeactivate" -> RoleAdmin
       [] route = "/pullRequest/create" -> RoleAdmin
       [] route = "/pullRequest/merge" -> RoleAdmin
       [] route = "/pullRequest/reassign" -> RoleAdmin
       [] route = "/stats/assignments" -> RoleUser]

\* number of requests one behaviour lets through Require
MaxRequests == 2

\* Require: TRUE when the wrapped handler is called, FALSE when the request is
\* answered 401
Require(role, a, auth) ==
  IF role = RoleNone THEN TRUE
  ELSE IF RoleFrom(a, auth) < role THEN FALSE
  ELSE TRUE

\* A request for route with the Authorization header auth reaches a server whose
\* handlers were built with the tokens a; a frame with ran set is a request
\* whose handler has been called and has not yet reached its use case.
ServeHTTP(c, a, route, auth) ==
  /\ CanEnter(c)
  /\ call[c] = Idle
  /\ ncalls + Cardinality({d \in Slots : call[d].ran /\ call[d].pc = "idle"}) < MaxRequests
  /\ LET f == [Idle EXCEPT !.route = route, !.header = auth, !.auth = a]
     IN IF Require(Register[route], a, auth)
        THEN call' = [call EXCEPT ![c] = [f EXCEPT !.ran = TRUE]]
        ELSE call' = [call EXCEPT ![c] =
                        [f EXCEPT !.op = "Require", !.pc = "done", !.status = 401,
                                  !.err = wrapCode(ErrNotFound, "unauthorized")]]
  /\ UNCHANGED <<db, tx, ncalls, created_size, merge_returned>>

Serves(c, route) == call[c].pc = "idle" /\ call[c].ran /\ call[c].route = route

handleHealth(c) ==
  /\ Serves(c, "/health")
  /\ call' = [call EXCEPT ![c].op = "Health", ![c].pc = "done", ![c].status = 200]
  /\ UNCHANGED <<db, tx, ncalls, created_size, merge_returned>>

\* ListUserPRs on r.db: the pull requests the user reviews, ordered by pr_id
ListUserPRs(uID) ==
  LET ids == SelectSeq(PROrder, LAMBDA p : p \in DOMAIN pull_requests
                                           /\ BagIn(<<p, uID>>, pr_reviewers))
  IN [i \in 1..Len(ids) |->
        [pr_id |-> ids[i], pr_name |-> pull_requests[ids[i]].pr_name,
         author_id |-> pull_requests[ids[i]].author_id,
         status |-> pull_requests[ids[i]].status]]

handleUsersGetReview(c) ==
  /\ Serves(c, "/users/getReview")
  /\ CanEnter(c)
  /\ \E uID \in ToggleIds :
       Start(c, [Idle EXCEPT !.op = "ListUserPRs", !.pc = "done", !.userID = uID,
                             !.prs = ListUserPRs(uID)], FALSE)
  /\ UNCHANGED <<db, created_size, merge_returned>>

handleTeamAdd(c) ==
  Serves(c, "/team/add") /\ \E req \in TeamRequests : AddTeam_TeamExists(c, req)

handleTeamGet(c) ==
  Serves(c, "/team/get") /\ \E teamName \in TeamNames : GetTeam_GetTeamMembers(c, teamName)

handleSetIsActive(c) ==
  /\ Serves(c, "/users/setIsActive")
  /\ \E uID \in ToggleIds, active \in BOOLEAN : SetIsActive_SetUserActive(c, uID, active)

handleUsersBulkDeactivate(c) ==
  Serves(c, "/users/bulkDeactivate") /\ \E req \in BulkRequests : Bulk_SelectTargets(c, req)

handlePRCreate(c) ==
  /\ Serves(c, "/pullRequest/create")
  /\ \E prID \in PRIds, name \in PRNames, authorID \in AuthorIds :
       CreatePR_GetPR(c, prID, name, authorID)

handlePRMerge(c) ==
  Serves(c, "/pullRequest/merge") /\ \E prID \in PRIds : MergePR_GetPR(c, prID)

handlePRReassign(c) ==
  /\ Serves(c, "/pullRequest/reassign")
  /\ \E prID \in PRIds, oldUserID \in UserIds : Reassign_GetPR(c, prID, oldUserID)

handleStatsAssignments(c) ==
  Serves(c, "/stats/assignments") /\ \E groupBy \in GroupBys : Stats_First(c, groupBy)

\* the steps of the use cases after their first
Service(c) ==
  \/ AddTeam_CreateTeam(c)
  \/ AddTeam_UpsertUser(c)
  \/ AddTeam_Commit(c)
  \/ AddTeam_GetTeamMembers(c)
  \/ CreatePR_GetUser(c)
  \/ CreatePR_Insert(c)
  \/ CreatePR_PickAssign(c)
  \/ CreatePR_Commit(c)
  \/ CreatePR_Response(c)
  \/ MergePR_SetPRMerged(c)
  \/ MergePR_Commit(c)
  \/ MergePR_Response(c)
  \/ Reassign_GetAssigned(c)
  \/ Reassign_GetUser(c)
  \/ Reassign_Pick(c)
  \/ Reassign_ReplaceDelete(c)
  \/ Reassign_ReplaceInsert(c)
  \/ Reassign_Commit(c)
  \/ Reassign_Response(c)
  \/ Bulk_Update(c)
  \/ Bulk_ListOpen(c)
  \/ Bulk_GetAssigned(c)
  \/ Bulk_Pick(c)
  \/ Bulk_ReplaceDelete(c)
  \/ Bulk_ReplaceInsert(c)
  \/ Bulk_DeleteReviewer(c)
  \/ Bulk_Commit(c)
  \/ Stats_ByPR(c)
  \/ DeadlockAbort(c)
  \/ Return(c)

NextAuth ==
  \E c \in Slots :
    \/ \E a \in Auths, route \in Routes, auth \in Headers : ServeHTTP(c, a, route, auth)
    \/ handleHealth(c)
    \/ handleTeamAdd(c)
    \/ handleTeamGet(c)
    \/ handleSetIsActive(c)
    \/ handleUsersGetReview(c)
    \/ handleUsersBulkDeactivate(c)
    \/ handlePRCreate(c)
    \/ handlePRMerge(c)
    \/ handlePRReassign(c)
    \/ handleStatsAssignments(c)
    \/ Service(c)

SpecAuth == Init /\ [][NextAuth]_vars

\* ================================================================ properties
Succeeded(c) == call[c].pc = "done" /\ call[c].err = NoErr
Moved(c) == call'[c].pc # call[c].pc /\ call'[c].pc # "idle"
ActiveMates(authorID) ==
  {u \in DOMAIN users :
     /\ users[u].team_name = users[authorID].team_name
     /\ users[u].is_active
     /\ u # authorID}
NoDuplicateRows == \A k \in DOMAIN pr_reviewers : pr_reviewers[k] <= 1

\* C1: after a successful CreatePR that ran with no other call in flight, the
\* stored reviewer set of the new PR has min(2, k) members, k the number of
\* active users of the author's team other than the author; each member is such
\* a user, the author is none of them, and no row is stored twice.
C1_CreateAssignsMin2 ==
  \A c \in Slots :
    (call[c].op = "CreatePR" /\ call[c].solo /\ Succeeded(c)) =>
      LET p == call[c].prID
          a == call[c].userID
      IN /\ p \in DOMAIN pull_requests
         /\ pull_requests[p].author_id = a
         /\ Cardinality(Reviewers(p)) = Min(2, Cardinality(ActiveMates(a)))
         /\ Reviewers(p) \subseteq ActiveMates(a)
         /\ a \notin Reviewers(p)
         /\ \A u \in UserIds : CopiesIn(<<p, u>>, pr_reviewers) <= 1

\* a solo CreatePR succeeded for an author with more than two active team
\* mates, one of whom was left out
C1_Witness ==
  \E c \in Slots :
    /\ call[c].op = "CreatePR" /\ call[c].solo /\ Succeeded(c)
    /\ Cardinality(ActiveMates(call[c].userID)) > 2
    /\ Cardinality(Reviewers(call[c].prID)) = 2

\* C2: a successful MergePR that found the PR OPEN returns it with status
\* MERGED and a merge timestamp, and every later successful MergePR on that PR
\* returns the status and timestamp the first one returned.
C2_MergeReturnsMerged ==
  \A c \in Slots :
    (call[c].op = "MergePR" /\ Succeeded(c)) =>
      /\ call[c].pr.status = StatusOPEN =>
           (call[c].out.status = StatusMERGED /\ call[c].out.merged_at # 0)
      /\ call[c].prID \in DOMAIN merge_returned =>
           /\ call[c].out.status = merge_returned[call[c].prID].status
           /\ call[c].out.merged_at = merge_returned[call[c].prID].merged_at

\* C3: the steps of a MergePR that found the PR MERGED write nothing (no
\* table changes), and the call ends without an error.
C3_MergeOnMergedWritesNothing ==
  [][\A c \in Slots :
       (call'[c].op = "MergePR" /\ call'[c].pr.status = StatusMERGED /\ Moved(c)) =>
         /\ db' = db
         /\ tx'[c] = NoTx
         /\ call'[c].err = NoErr]_vars

\* a MergePR on a PR that was MERGED has returned
C3_Witness ==
  \E c \in Slots :
    /\ call[c].op = "MergePR" /\ Succeeded(c)
    /\ call[c].pr.status = StatusMERGED
    /\ call[c].out.status = StatusMERGED /\ call[c].out.merged_at # 0

\* C4: a Reassign that finds the PR MERGED ends at once with PR_MERGED, for
\* every old user id, and changes no reviewer row.
C4_ReassignOnMergedFails ==
  [][\A c \in Slots :
       (call'[c].op = "Reassign" /\ call'[c].pr.status = StatusMERGED /\ Moved(c)) =>
         /\ call'[c].pc = "done"
         /\ ParseErrorCode(call'[c].err) = ErrPRMerged
         /\ tx'[c] = NoTx
         /\ pr_reviewers' = pr_reviewers]_vars

\* a Reassign of an assigned reviewer of a MERGED PR was refused
C4_Witness ==
  \E c \in Slots :
    /\ call[c].op = "Reassign" /\ call[c].pc = "done"
    /\ call[c].pr.status = StatusMERGED
    /\ call[c].userID \in Reviewers(call[c].prID)
    /\ ParseErrorCode(call[c].err) = ErrPRMerged

\* C5: after a successful Reassign that ran with no other call in flight, the
\* old user is no reviewer of the PR; the returned replacement is one, is not
\* the author, was no reviewer before, is an active user of the old user's
\* team; and the reviewer set has the size it had before.
C5_ReassignReplaces ==
  \A c \in Slots :
    (call[c].op = "Reassign" /\ call[c].solo /\ Succeeded(c)) =>
      LET p == call[c].prID
          old == call[c].userID
          new == call[c].replacedBy
      IN /\ old \notin Reviewers(p)
         /\ new \in Reviewers(p)
         /\ new # pull_requests[p].author_id
         /\ new \notin SeqToSet(call[c].assigned)
         /\ new \in DOMAIN users
         /\ users[new].team_name = users[old].team_name
         /\ users[new].is_active
         /\ Cardinality(Reviewers(p)) = Len(call[c].assigned)

\* a solo Reassign succeeded on a PR with two reviewers
C5_Witness ==
  \E c \in Slots :
    /\ call[c].op = "Reassign" /\ call[c].solo /\ Succeeded(c)
    /\ Len(call[c].assigned) = 2
    /\ call[c].replacedBy \in Reviewers(call[c].prID)

\* C6: once a PR is stored as MERGED, no step changes its reviewer set.
C6_MergedFrozen ==
  [][\A p \in DOMAIN pull_requests :
       pull_requests[p].status = StatusMERGED =>
         {u \in UserIds : BagIn(<<p, u>>, pr_reviewers')} = Reviewers(p)]_vars

\* C7: of two Reassign calls for the same PR and old user that ran at the same
\* time, one of which succeeded, exactly one succeeded and the other ended
\* with NOT_ASSIGNED.
C7_OneReassignWins ==
  \A c, d \in Slots :
    ( /\ c # d
      /\ call[c].op = "Reassign" /\ call[d].op = "Reassign"
      /\ call[c].pc = "done" /\ call[d].pc = "done"
      /\ ~call[c].solo /\ ~call[d].solo
      /\ call[c].prID = call[d].prID /\ call[c].userID = call[d].userID
      /\ call[c].err = NoErr ) =>
        ParseErrorCode(call[d].err) = ErrNotAssigned

\* C8: of two CreatePR calls with the same PR id and stored authors that ran
\* at the same time, one of which created the PR, the other ended with
\* PR_EXISTS, and the PR is stored once.
C8_OneCreateWins ==
  \A c, d \in Slots :
    ( /\ c # d
      /\ call[c].op = "CreatePR" /\ call[d].op = "CreatePR"
      /\ call[c].pc = "done" /\ call[d].pc = "done"
      /\ ~call[c].solo /\ ~call[d].solo
      /\ call[c].prID = call[d].prID
      /\ call[c].userID \in DOMAIN users /\ call[d].userID \in DOMAIN users
      /\ call[c].err = NoErr ) =>
        /\ ParseErrorCode(call[d].err) = ErrPRExists
        /\ call[c].prID \in DOMAIN pull_requests

\* C9: every PR has at most 2 reviewers and never more than CreatePR stored.
C9_SizeNeverGrows ==
  \A p \in DOMAIN created_size :
    /\ Cardinality(Reviewers(p)) <= 2
    /\ Cardinality(Reviewers(p)) <= created_size[p]

\* C10: no PR has its author among its reviewers, and no (PR, user) row is
\* stored twice.
C10_NoSelfReviewNoDuplicates ==
  /\ \A p \in DOMAIN pull_requests : pull_requests[p].author_id \notin Reviewers(p)
  /\ NoDuplicateRows

\* two Reassign calls that ran at the same time both committed a replacement
\* on the same PR
C10_Witness ==
  \E c, d \in Slots :
    /\ c # d
    /\ call[c].op = "Reassign" /\ call[d].op = "Reassign"
    /\ Succeeded(c) /\ Succeeded(d)
    /\ call[c].prID = call[d].prID
    /\ call[c].replacedBy \in Reviewers(call[c].prID)

C12_BulkOutcomePerAssignment ==
  [][\A c \in Slots :
       ( /\ call'[c].op = "BulkDeactivateAndReassign" /\ call'[c].solo
         /\ call[c].pc # "done" /\ call'[c].pc = "done" /\ call'[c].err = NoErr ) =>
         LET dead == call'[c].deactivated
             out == call'[c].outcomes
             before == {k \in PRIds \X dead :
                          /\ k[1] \in DOMAIN pull_requests
                          /\ pull_requests[k[1]].status = StatusOPEN
                          /\ BagIn(k, pr_reviewers)}
             entries(k) == {i \in 1..Len(out) :
                              out[i].PRID = k[1] /\ out[i].OldUserID = k[2]}
         IN /\ \A k \in before :
                 /\ Cardinality(entries(k)) = 1
                 /\ \A i \in entries(k) : out[i].Action \in {"replaced", "removed"}
            /\ \A p \in DOMAIN pull_requests' :
                 pull_requests'[p].status = StatusOPEN =>
                   \A u \in dead : ~BagIn(<<p, u>>, pr_reviewers')]_vars

\* a solo bulk call has returned two outcomes, one of them a replacement that
\* is stored
C12_Witness ==
  \E c \in Slots :
    /\ call[c].op = "BulkDeactivateAndReassign" /\ call[c].solo /\ Succeeded(c)
    /\ Len(call[c].outcomes) = 2
    /\ \E i \in 1..2 :
         /\ call[c].outcomes[i].Action = "replaced"
         /\ call[c].outcomes[i].ReplacedBy \in Reviewers(call[c].outcomes[i].PRID)

\* C13: in a BulkDeactivateAndReassign that runs with no other call in flight,
\* every "replaced" outcome names an active user of the old user's team who is
\* not the author, and two outcomes for the same PR never name the same
\* replacement (a replacement made earlier in the call is a reviewer of the PR
\* and is excluded from the later selections).
C13_BulkReplacementsFresh ==
  \A c \in Slots :
    (call[c].op = "BulkDeactivateAndReassign" /\ call[c].solo) =>
      LET out == call[c].outcomes
      IN \A i \in 1..Len(out) :
           out[i].Action = "replaced" =>
             /\ out[i].ReplacedBy \in DOMAIN users
             /\ users[out[i].ReplacedBy].is_active
             /\ users[out[i].ReplacedBy].team_name = users[out[i].OldUserID].team_name
             /\ out[i].ReplacedBy # pull_requests[out[i].PRID].author_id
             /\ \A j \in 1..Len(out) :
                  (j # i /\ out[j].PRID = out[i].PRID /\ out[j].Action = "replaced") =>
                    out[j].ReplacedBy # out[i].ReplacedBy

\* C14: after a successful BulkDeactivateAndReassign (one that ran with no
\* other call in flight) no deactivated id is a reviewer of any PR, whatever
\* the status of the PR.
C14_NoDeactivatedAnywhere ==
  \A c \in Slots :
    (call[c].op = "BulkDeactivateAndReassign" /\ call[c].solo /\ Succeeded(c)) =>
      \A p \in DOMAIN pull_requests : \A u \in call[c].deactivated :
        ~BagIn(<<p, u>>, pr_reviewers)

\* C14, amended: a BulkDeactivateAndReassign that runs with no other call in
\* flight never changes the reviewer rows of a MERGED PR, and when it returns
\* with success no deactivated id is a reviewer of an OPEN PR.
C14_BulkCleansOpenPRsOnly ==
  [][\A c \in Slots :
       (call'[c].op = "BulkDeactivateAndReassign" /\ call'[c].solo /\ Moved(c)) =>
         /\ \A p \in DOMAIN pull_requests :
              pull_requests[p].status = StatusMERGED =>
                \A u \in UserIds :
                  CopiesIn(<<p, u>>, pr_reviewers') = CopiesIn(<<p, u>>, pr_reviewers)
         /\ (call'[c].pc = "done" /\ call'[c].err = NoErr) =>
              \A p \in DOMAIN pull_requests' :
                pull_requests'[p].status = StatusOPEN =>
                  \A u \in call'[c].deactivated : ~BagIn(<<p, u>>, pr_reviewers')]_vars

\* a solo bulk call has succeeded and a user it deactivated is still a
\* reviewer of a MERGED PR
C14_Witness ==
  \E c \in Slots :
    /\ call[c].op = "BulkDeactivateAndReassign" /\ call[c].solo /\ Succeeded(c)
    /\ \E p \in DOMAIN pull_requests : \E u \in call[c].deactivated :
         /\ pull_requests[p].status = StatusMERGED
         /\ ~users[u].is_active
         /\ BagIn(<<p, u>>, pr_reviewers)

\* the reviewers of PR p as the transaction of slot c has left them
TxReviewers(c, p) ==
  {u \in UserIds : \/ BagIn(<<p, u>>, pr_reviewers) /\ <<p, u>> \notin tx[c].del
                   \/ <<p, u>> \in tx[c].ins}

\* C15: in a BulkDeactivateAndReassign that runs with no other call in flight,
\* the outcome appended for an assignment is "removed", with no replacement,
\* exactly when the old user's team has no active user outside the PR's
\* current reviewers and its author; and when every reviewer of an OPEN PR is
\* deactivated and the team has no other active user, the PR ends with no
\* reviewer.
C15_RemovedIffNoCandidate ==
  [][\A c \in Slots :
       (call'[c].op = "BulkDeactivateAndReassign" /\ call'[c].solo) =>
         /\ Len(call'[c].outcomes) = Len(call[c].outcomes) + 1 =>
              LET o == call'[c].outcomes[Len(call'[c].outcomes)]
                  free == {u \in DOMAIN users :
                             /\ users[u].team_name = users[o.OldUserID].team_name
                             /\ users[u].is_active
                             /\ u \notin TxReviewers(c, o.PRID)
                             /\ u # pull_requests[o.PRID].author_id}
              IN /\ (o.Action = "removed") <=> (free = {})
                 /\ (o.Action = "removed") => (o.ReplacedBy = "")
         /\ (call[c].pc = "bk_commit" /\ call'[c].pc = "done") =>
              \A p \in DOMAIN pull_requests :
                ( /\ pull_requests[p].status = StatusOPEN
                  /\ Reviewers(p) \subseteq call[c].deactivated
                  /\ \A u \in DOMAIN users :
                       (users[u].team_name = call[c].team /\ users[u].is_active) =>
                         u = pull_requests[p].author_id ) =>
                  \A u \in UserIds : ~BagIn(<<p, u>>, pr_reviewers')]_vars

\* C16: BulkDeactivateAndReassign is all-or-nothing: when the call has
\* returned a failure, every user it selected for deactivation has the
\* activity flag it had when the call began.
C16_BulkAllOrNothing ==
  \A c \in Slots :
    ( /\ call[c].op = "BulkDeactivateAndReassign"
      /\ call[c].pc = "done" /\ call[c].err # NoErr ) =>
        \A u \in call[c].deactivated :
          users[u].is_active = (u \in call[c].wasActive)

C18_SetIsActiveFrame ==
  [][\A c \in Slots :
       (call'[c].op = "SetIsActive" /\ call[c].pc = "idle" /\ call'[c].pc = "done") =>
         LET u == call'[c].userID
         IN IF u \notin DOMAIN users
            THEN /\ ParseErrorCode(call'[c].err) = ErrNotFound
                 /\ db' = db
            ELSE /\ call'[c].err = NoErr
                 /\ users' = [users EXCEPT ![u].is_active = call'[c].active]
                 /\ teams' = teams
                 /\ pull_requests' = pull_requests
                 /\ pr_reviewers' = pr_reviewers]_vars

\* a reviewer of an OPEN PR has been deactivated by SetIsActive and is still
\* a reviewer of it
C18_Witness ==
  \E c \in Slots :
    /\ call[c].op = "SetIsActive" /\ Succeeded(c) /\ ~call[c].active
    /\ ~users[call[c].userID].is_active
    /\ \E p \in DOMAIN pull_requests :
         /\ pull_requests[p].status = StatusOPEN
         /\ call[c].userID \in Reviewers(p)

\* C19: the step by which a Reassign ends with a failure changes no reviewer
\* row (and no other row).  For a Reassign that ran with no other call in
\* flight: it fails with NOT_FOUND when the PR does not exist, with
\* NOT_ASSIGNED when the PR is OPEN and the old user is not among its
\* reviewers, with NO_CANDIDATE when the PR is OPEN, the old user is a
\* reviewer and the old user's team has no active user outside the reviewers
\* and the author; and it commits only when none of these holds.
C19_ReassignFailures ==
  [][\A c \in Slots :
       (call'[c].op = "Reassign" /\ Moved(c)) =>
         LET p == call'[c].prID
             old == call'[c].userID
             known == p \in DOMAIN pull_requests
             open == known /\ pull_requests[p].status = StatusOPEN
             free == {u \in DOMAIN users :
                        /\ old \in DOMAIN users
                        /\ users[u].team_name = users[old].team_name
                        /\ users[u].is_active
                        /\ u \notin Reviewers(p)
                        /\ u # pull_requests[p].author_id}
             code == ParseErrorCode(call'[c].err)
         IN /\ (call'[c].pc = "done" /\ call'[c].err # NoErr) => db' = db
            /\ (call'[c].solo /\ call'[c].pc = "done" /\ call'[c].err # NoErr) =>
                 /\ ~known => code = ErrNotFound
                 /\ (open /\ old \notin Reviewers(p)) => code = ErrNotAssigned
                 /\ (open /\ old \in Reviewers(p) /\ free = {}) => code = ErrNoCandidate
            /\ (call'[c].solo /\ call[c].pc = "ra_commit") =>
                 open /\ old \in Reviewers(p) /\ free # {}]_vars

\* a solo Reassign of an assigned reviewer of an OPEN PR has ended with
\* NO_CANDIDATE
C19_Witness ==
  \E c \in Slots :
    /\ call[c].op = "Reassign" /\ call[c].solo /\ call[c].pc = "done"
    /\ ParseErrorCode(call[c].err) = ErrNoCandidate
    /\ call[c].prID \in DOMAIN pull_requests
    /\ pull_requests[call[c].prID].status = StatusOPEN
    /\ call[c].userID \in Reviewers(call[c].prID)

\* C20: no step of a CreatePR other than its commit changes a table, so a
\* CreatePR that fails creates no PR and adds or changes no reviewer row.  For
\* a CreatePR that ran with no other call in flight: it fails with PR_EXISTS
\* when a PR with that id is stored (the stored PR keeps its row), with
\* NOT_FOUND when the id is free and the author is unknown; and it commits
\* only when the id is free and the author is known.
C20_CreateFailures ==
  [][\A c \in Slots :
       (call'[c].op = "CreatePR" /\ Moved(c)) =>
         LET p == call'[c].prID
             exists == p \in DOMAIN pull_requests
             unknown == call'[c].userID \notin DOMAIN users
             code == ParseErrorCode(call'[c].err)
         IN /\ call[c].pc # "cp_commit" => db' = db
            /\ (call'[c].pc = "done" /\ call'[c].err # NoErr) => db' = db
            /\ (call'[c].solo /\ call'[c].pc = "done" /\ call'[c].err # NoErr) =>
                 /\ exists => code = ErrPRExists
                 /\ (~exists /\ unknown) => code = ErrNotFound
            /\ (call'[c].solo /\ call[c].pc = "cp_commit") =>
                 ~exists /\ ~unknown]_vars

\* a solo CreatePR for a stored id has ended with PR_EXISTS, and the stored PR
\* has another author than the one of the request
C20_Witness ==
  \E c \in Slots :
    /\ call[c].op = "CreatePR" /\ call[c].solo /\ call[c].pc = "done"
    /\ ParseErrorCode(call[c].err) = ErrPRExists
    /\ call[c].prID \in DOMAIN pull_requests
    /\ pull_requests[call[c].prID].author_id # call[c].userID

\* C21: an AddTeam for a team_name that is stored when the call begins ends
\* at once with TEAM_EXISTS.  No step of an AddTeam before its commit changes
\* a table, and an AddTeam fails only before its commit, in a step that
\* changes no table: a failed AddTeam leaves every team and every user row
\* (username, team_name, is_active) as it was.
C21_AddTeamFailureChangesNothing ==
  [][\A c \in Slots :
       /\ (call'[c].op = "AddTeam" /\ call[c].pc = "idle" /\ call'[c].team \in teams) =>
            /\ call'[c].pc = "done"
            /\ ParseErrorCode(call'[c].err) = ErrTeamExists
            /\ db' = db
       /\ (call'[c].op = "AddTeam" /\ call'[c].pc = "done" /\ call'[c].err # NoErr
             /\ call[c].pc # "done") =>
            /\ call[c].pc \in {"idle", "at_create", "at_upsert"}
            /\ db' = db
       /\ (call[c].op = "AddTeam" /\ call[c].pc \in {"at_create", "at_upsert"}
             /\ call'[c] # call[c] /\ ncalls' = ncalls /\ call'[c].pc # "at_members") =>
            db' = db]_vars

\* an AddTeam for a stored team has ended with TEAM_EXISTS although a member
\* of its request differs from the stored row of that user
C21_Witness ==
  \E c \in Slots :
    /\ call[c].op = "AddTeam" /\ call[c].pc = "done"
    /\ ParseErrorCode(call[c].err) = ErrTeamExists
    /\ \E i \in 1..Len(call[c].members) :
         LET m == call[c].members[i]
         IN m.user_id \in DOMAIN users /\ users[m.user_id] # UserRow(m, call[c].team)

\* the place of a user id in the order of the ids
Rank(u) == CHOOSE i \in 1..Len(UserOrder) : UserOrder[i] = u
\* the /team/add request an AddTeam call was made with
RequestOf(c) == CHOOSE r \in TeamRequests : r.team_name = call[c].team

\* C22: the commit of an AddTeam stores the team and, for every member of the
\* request, a user row with the member's username and is_active and with
\* team_name = the team of the request, whether or not the user id was stored
\* before (in this or another team), and it changes no other user row.  An
\* AddTeam that ran with no other call in flight returns exactly the ids of
\* the users whose team_name is the team, in ascending order of user id.
C22_AddTeamStoresAndReturnsMembers ==
  [][\A c \in Slots :
       /\ (call[c].op = "AddTeam" /\ call[c].pc = "at_upsert"
             /\ call'[c].pc = "at_members") =>
            LET req == RequestOf(c)
                ids == {req.members[i].user_id : i \in 1..Len(req.members)}
            IN /\ req.team_name \in teams'
               /\ \A i \in 1..Len(req.members) :
                    LET m == req.members[i]
                    IN /\ m.user_id \in DOMAIN users'
                       /\ users'[m.user_id].username = m.username
                       /\ users'[m.user_id].is_active = m.is_active
                       /\ users'[m.user_id].team_name = req.team_name
               /\ \A u \in DOMAIN users : u \notin ids => users'[u] = users[u]
               /\ DOMAIN users' = DOMAIN users \cup ids
       /\ (call[c].op = "AddTeam" /\ call[c].pc = "at_members"
             /\ call'[c].pc = "done" /\ call'[c].solo) =>
            LET out == call'[c].outMembers
            IN /\ call'[c].err = NoErr
               /\ SeqToSet(out) = {u \in DOMAIN users : users[u].team_name = call[c].team}
               /\ \A i, j \in 1..Len(out) : i < j => Rank(out[i]) < Rank(out[j])]_vars

\* a solo AddTeam has succeeded for team "payments" while team "backend" is
\* stored with members: "u1" and "u5", stored before as members of "backend",
\* now carry the username, flag and team of the "payments" request
C22_Witness ==
  \E c \in Slots :
    /\ call[c].op = "AddTeam" /\ Succeeded(c) /\ call[c].solo
    /\ call[c].team = "payments"
    /\ "backend" \in teams
    /\ \E u \in DOMAIN users : users[u].team_name = "backend"
    /\ users["u1"] = [username |-> "Al", team_name |-> "payments", is_active |-> FALSE]
    /\ call[c].outMembers = <<"u1", "u5">>

\* C23: GetTeam(name) changes no table; it ends with NOT_FOUND exactly when
\* no stored user has team_name = name, whether or not the team is stored,
\* and otherwise succeeds with the ids of the users of that team.
C23_GetTeamNotFoundIffNoMembers ==
  [][\A c \in Slots :
       (call'[c].op = "GetTeam" /\ call[c].pc = "idle") =>
         LET members == {u \in DOMAIN users : users[u].team_name = call'[c].team}
         IN /\ call'[c].pc = "done"
            /\ db' = db
            /\ (ParseErrorCode(call'[c].err) = ErrNotFound) <=> (members = {})
            /\ members = {} => call'[c].err # NoErr
            /\ members # {} => /\ call'[c].err = NoErr
                               /\ SeqToSet(call'[c].outMembers) = members]_vars

\* GetTeam has ended with NOT_FOUND for a team that is stored: all its
\* members were moved to another team by a later AddTeam
C23_Witness ==
  \E c \in Slots :
    /\ call[c].op = "GetTeam" /\ call[c].pc = "done"
    /\ ParseErrorCode(call[c].err) = ErrNotFound
    /\ call[c].team \in teams
    /\ users # EmptyFn
    /\ \A u \in DOMAIN users : users[u].team_name # call[c].team

\* C24: no step turns the stored status of a PR from MERGED back to OPEN,
\* and no step changes a stored merge timestamp.
C24_MergedOnceForAll ==
  [][\A p \in DOMAIN pull_requests :
       /\ pull_requests[p].status = StatusMERGED =>
            pull_requests'[p].status = StatusMERGED
       /\ pull_requests[p].merged_at # 0 =>
            pull_requests'[p].merged_at = pull_requests[p].merged_at]_vars

\* C25: a selection returns min(limit, n) ids, n the number of active users
\* of the team outside the exclusion set; the ids are distinct and each is
\* such a user; none is returned when there is none.  For one key the result
\* for limit 1 is the first id of the result for limit 2 made with the same
\* team and exclusion set against the same active users.
C25_SelectionSizeAndRanking ==
  \A c \in Slots :
    call[c].pc = "picked" =>
      LET free == call[c].pool \ call[c].exclude
          got == call[c].cands
      IN /\ Len(got) = Min(call[c].limit, Cardinality(free))
         /\ \A i \in 1..Len(got) : got[i] \in free
         /\ \A i, j \in 1..Len(got) : i # j => got[i] # got[j]
         /\ free = {} => got = <<>>
         /\ \A d \in Slots :
              ( /\ call[d].pc = "picked"
                /\ call[d].prID = call[c].prID /\ call[d].team = call[c].team
                /\ call[d].exclude = call[c].exclude /\ call[d].pool = call[c].pool
                /\ call[c].limit = 1 /\ call[d].limit = 2 ) =>
                got = SubSeq(call[d].cands, 1, Min(1, Len(call[d].cands)))

\* two selections with the same key, team, exclusion set and active users,
\* one with limit 1 and one with limit 2: the second returned two ids, the
\* first returned the first of them, and the team has a third free user
C25_Witness ==
  \E c, d \in Slots :
    /\ call[c].pc = "picked" /\ call[d].pc = "picked"
    /\ call[d].prID = call[c].prID /\ call[d].team = call[c].team
    /\ call[d].exclude = call[c].exclude /\ call[d].pool = call[c].pool
    /\ call[c].limit = 1 /\ call[d].limit = 2
    /\ Len(call[d].cands) = 2 /\ call[c].cands = <<call[d].cands[1]>>
    /\ Cardinality(call[c].pool \ call[c].exclude) > 2

\* C26: of two AddTeam calls for the same team name that ran at the same
\* time, one of which succeeded, the other ended with TEAM_EXISTS, and the
\* team is stored.
C26_OneAddTeamWins ==
  \A c, d \in Slots :
    ( /\ c # d
      /\ call[c].op = "AddTeam" /\ call[d].op = "AddTeam"
      /\ call[c].pc = "done" /\ call[d].pc = "done"
      /\ ~call[c].solo /\ ~call[d].solo
      /\ call[c].team = call[d].team
      /\ call[c].err = NoErr ) =>
        /\ ParseErrorCode(call[d].err) = ErrTeamExists
        /\ call[c].team \in teams

\* every foreign key of the schema points at a stored row
RefIntegrity ==
  /\ \A u \in DOMAIN users : users[u].team_name \in teams
  /\ \A p \in DOMAIN pull_requests : pull_requests[p].author_id \in DOMAIN users
  /\ \A k \in DOMAIN pr_reviewers : k[1] \in DOMAIN pull_requests /\ k[2] \in DOMAIN users

\* C27: in every state each user's team_name is a stored team, each PR's
\* author_id is a stored user, and each reviewer row names a stored PR and a
\* stored user; no step removes a team, a user or a PR or changes the author
\* of a PR.
C27_ReferencesAndIdsStable ==
  [][/\ RefIntegrity
     /\ RefIntegrity'
     /\ teams \subseteq teams'
     /\ DOMAIN users \subseteq DOMAIN users'
     /\ DOMAIN pull_requests \subseteq DOMAIN pull_requests'
     /\ \A p \in DOMAIN pull_requests :
          pull_requests'[p].author_id = pull_requests[p].author_id]_vars

\* a PR is stored whose author has been moved to another team than one of
\* its reviewers by a later AddTeam
C27_Witness ==
  \E p \in DOMAIN pull_requests :
    \E u \in Reviewers(p) :
      /\ users[u].team_name # users[pull_requests[p].author_id].team_name
      /\ Cardinality(teams) = 2

\* C28: the commit of a BulkDeactivateAndReassign changes the reviewer set of
\* no PR that is stored as MERGED and of no PR none of whose reviewers is one
\* of the deactivated users; a call none of whose ids is a user of the named
\* team ends at once, changes no table and returns no deactivated id and no
\* outcome.
C28_BulkFrame ==
  [][\A c \in Slots :
       /\ (call[c].op = "BulkDeactivateAndReassign" /\ call[c].pc = "bk_commit"
             /\ call'[c].pc = "done") =>
            \A p \in DOMAIN pull_requests :
              ( \/ pull_requests[p].status = StatusMERGED
                \/ Reviewers(p) \cap call[c].deactivated = {} ) =>
                {u \in UserIds : BagIn(<<p, u>>, pr_reviewers')} = Reviewers(p)
       /\ (call'[c].op = "BulkDeactivateAndReassign" /\ call[c].pc = "idle"
             /\ \A u \in call'[c].userIDs :
                  u \notin DOMAIN users \/ users[u].team_name # call'[c].team) =>
            /\ call'[c].pc = "done" /\ call'[c].err = NoErr
            /\ call'[c].deactivated = {} /\ call'[c].outcomes = <<>>
            /\ db' = db]_vars

\* the sum of the counts of a by-user or by-PR map
RECURSIVE SumOf(_)
SumOf(f) ==
  IF DOMAIN f = {} THEN 0
  ELSE LET x == CHOOSE x \in DOMAIN f : TRUE
       IN f[x] + SumOf(Without(f, x))

\* C29: a StatsAssignments for group "all" returns by-user counts
\* and by-PR counts with the same sum.
C29_StatsSumsEqual ==
  \A c \in Slots :
    (call[c].op = "StatsAssignments" /\ call[c].pc = "done" /\ call[c].groupBy = "all") =>
      SumOf(call[c].byUser) = SumOf(call[c].byPR)

\* C29, amended: no step of a StatsAssignments changes a table.  Its by-user
\* map holds, for the tables as they are when it is read, exactly the users
\* that are a reviewer of some PR, OPEN or MERGED, each with the number of
\* such PRs; its by-PR map holds exactly the PRs with a reviewer, each with
\* the size of its reviewer set.  For group "all" the two sums are equal when
\* the call ran with no other call in flight.
C29_StatsCountsPerQuery ==
  [][\A c \in Slots :
       LET byUserNow ==
             [u \in {u \in UserIds : \E p \in DOMAIN pull_requests : u \in Reviewers(p)} |->
                Cardinality({p \in DOMAIN pull_requests : u \in Reviewers(p)})]
           byPRNow ==
             [p \in {p \in DOMAIN pull_requests : Reviewers(p) # {}} |->
                Cardinality(Reviewers(p))]
       IN /\ (call'[c].op = "StatsAssignments" /\ call[c].pc = "idle") =>
               /\ db' = db
               /\ call'[c].groupBy \in {"user", "all"} => call'[c].byUser = byUserNow
               /\ call'[c].groupBy = "pr" => call'[c].byPR = byPRNow
               /\ call'[c].groupBy = "user" => call'[c].byPR = EmptyFn
               /\ call'[c].groupBy = "pr" => call'[c].byUser = EmptyFn
          /\ (call[c].op = "StatsAssignments" /\ call[c].pc = "st_bypr"
                /\ call'[c].pc = "done") =>
               /\ db' = db
               /\ call'[c].byPR = byPRNow
               /\ call'[c].byUser = call[c].byUser
               /\ call'[c].solo => SumOf(call'[c].byUser) = SumOf(call'[c].byPR)]_vars

\* a solo StatsAssignments for group "all" has returned counts that include
\* the reviewers of a MERGED PR, while a stored user without assignment has
\* no entry
C29_Witness ==
  \E c \in Slots :
    /\ call[c].op = "StatsAssignments" /\ Succeeded(c) /\ call[c].solo
    /\ call[c].groupBy = "all"
    /\ \E p \in DOMAIN call[c].byPR :
         pull_requests[p].status = StatusMERGED /\ call[c].byPR[p] = 2
    /\ \E u \in DOMAIN users : u \notin DOMAIN call[c].byUser
    /\ SumOf(call[c].byUser) = 2

\* the next statement of the call in slot c runs on r.db while the call
\* holds the connection of its open transaction
WaitsForConn(c) ==
  /\ tx[c].open
  /\ call[c].pc \in {"cp_begin", "cp_getuser", "cp_pick", "mp_begin", "mp_update"}

\* C30: in no state are all connections of the pool held by open
\* transactions each of which waits for a further connection to run a
\* statement on r.db.
C30_NoPoolStarvation ==
  ~ ( /\ InUse = MaxOpenConns
      /\ \A c \in Slots : tx[c].open => WaitsForConn(c) )

\* ---------------------------------------------------------------- C31
MutatingRoutes ==
  {"/team/add", "/users/setIsActive", "/users/bulkDeactivate", "/pullRequest/create",
   "/pullRequest/merge", "/pullRequest/reassign"}
ReadRoutes == {"/team/get", "/users/getReview", "/stats/assignments"}
MutatingOps ==
  {"AddTeam", "SetIsActive", "BulkDeactivateAndReassign", "CreatePR", "MergePR", "Reassign"}
RouteOf(op) ==
  CASE op = "Health" -> "/health"
    [] op = "AddTeam" -> "/team/add"
    [] op = "GetTeam" -> "/team/get"
    [] op = "SetIsActive" -> "/users/setIsActive"
    [] op = "ListUserPRs" -> "/users/getReview"
    [] op = "BulkDeactivateAndReassign" -> "/users/bulkDeactivate"
    [] op = "CreatePR" -> "/pullRequest/create"
    [] op = "MergePR" -> "/pullRequest/merge"
    [] op = "Reassign" -> "/pullRequest/reassign"
    [] op = "StatsAssignments" -> "/stats/assignments"
    [] OTHER -> ""
\* the request's header is "Bearer " followed by a non-empty token that is the
\* configured one
Presents(f, token) ==
  f.header.lead = "Bearer " /\ f.header.rest # "" /\ f.header.rest = token
HandlerCalled(c) == ~call[c].ran /\ call'[c].ran
UseCaseBegins(c) == call[c].pc = "idle" /\ call'[c].pc # "idle" /\ call'[c].op # "Require"

\* C31: Require calls the handler of a mutating route (team/add,
\* users/setIsActive, users/bulkDeactivate, pullRequest/create, merge, reassign)
\* only for a request whose bearer token is the configured admin token, and the
\* handler of a read route only for one whose bearer token is the configured
\* admin or user token; an empty token is never the configured one. A use case
\* begins only in a handler Require called for its route, and the tables change
\* only in steps of the mutating use cases, so a request without a valid token
\* changes no state.
C31_AccessCheck ==
  [][/\ \A c \in Slots :
          /\ HandlerCalled(c) /\ call'[c].route \in MutatingRoutes
               => Presents(call'[c], call'[c].auth.AdminToken)
          /\ HandlerCalled(c) /\ call'[c].route \in ReadRoutes
               => \/ Presents(call'[c], call'[c].auth.AdminToken)
                  \/ Presents(call'[c], call'[c].auth.UserToken)
          /\ UseCaseBegins(c) => call[c].ran /\ call[c].route = RouteOf(call'[c].op)
     /\ db' # db => \E c \in Slots : call'[c] # call[c] /\ call'[c].op \in MutatingOps
    ]_vars

\* a request for a mutating route that presents "Bearer " and an empty token to
\* a server with no admin token configured was answered 401, while the other
\* slot runs the AddTeam use case its handler began
C31_Witness ==
  \E c, d \in Slots :
    /\ call[c].op = "Require" /\ call[c].status = 401
    /\ call[c].route \in MutatingRoutes
    /\ call[c].auth.AdminToken = ""
    /\ call[c].header = [lead |-> "Bearer ", rest |-> ""]
    /\ call[d].op = "AddTeam" /\ call[d].pc # "done"

====
